---- MODULE Spec2Model ----
(***************************************************************************)
(* Model of graphingBFS.py: class Node, class Graph (constructor,          *)
(* connectAdj, routeFromN1toN2, getPathAndParamsNode).                     *)
(*                                                                         *)
(* Node names are positive integers; a dictionary with the keys 1..n is    *)
(* the sequence of its n adjacency lists, and the iteration order of the   *)
(* dictionaries nodeAdjDict / nodeObjDict (insertion order of the keys) is *)
(* the numeric order.  An adjacency entry (adjNode, edgeVal) is the tuple  *)
(* <<adjNode, edgeVal>>; a Python list is a sequence.                      *)
(***************************************************************************)
EXTENDS Integers, Sequences, FiniteSets, TLC

\* ------------------------------------------------------------------ bounds
NumNodes == 4
MaxWeight == 1
MaxAdj == 2
MaxEdges == 3
MaxCalls == 1
SimpleNodes == 3
MaxRequests == 2
SessionEdges == 2

\* --------------------------------------------------------- program constants
leastCost == 0
bestBandwidth == 1
minHopCount == 2
Unvisited == -1
NoBw == 999

Weights == 0..MaxWeight
RoutingTypes == {leastCost, bestBandwidth, minHopCount}

VARIABLES
    nodeAdjD,            \* the dictionary handed to Graph.__init__
    nodeAdjDict,         \* Graph.nodeAdjDict: the declared adjacency lists
    directed,            \* Graph.directed
    rootNodeName,        \* Graph.rootNodeName (0 models "")
    node2Name,           \* Graph.node2Name (0 models "")
    routingType,         \* Graph.routingType
    adjacencies,         \* Node.adjacencies of every node
    numHopsFromRoot,     \* Node.numHopsFromRoot of every node
    upstreamNodeToRoot,  \* Node.upstreamNodeToRoot of every node
    valueToRoot,         \* Node.valueToRoot of every node
    lowestBwPipeToRoot,  \* Node.lowestBwPipeToRoot of every node
    nodeQ,               \* the deque of routeFromN1toN2 when the call ended
    outcome,             \* how the last call ended
    calls,               \* number of routeFromN1toN2 calls made so far
    previous,            \* <<rootNodeName, routingType, outcome>> at the last call
    enqueued,            \* the nodes put on nodeQ by the running request, in order
    dequeued             \* the nodes popped from nodeQ by the running request, in order

vars == <<nodeAdjD, nodeAdjDict, directed, rootNodeName, node2Name, routingType,
          adjacencies, numHopsFromRoot, upstreamNodeToRoot, valueToRoot,
          lowestBwPipeToRoot, nodeQ, outcome, calls, previous, enqueued, dequeued>>

\* self.nodeAdjDict.keys(), which are the keys of self.nodeObjDict too
Nodes == DOMAIN nodeAdjDict

\* the target names the requests are drawn from: the first and the last key
Targets == {1, Len(nodeAdjDict)}

\* ------------------------------------------------------------ list helpers
Min2(a, b) == IF a <= b THEN a ELSE b
Max2(a, b) == IF a >= b THEN a ELSE b

\* list.pop(i) with a 1-based index i (the caller checks i <= Len(l))
Pop(l, i) == [k \in 1..(Len(l) - 1) |-> IF k < i THEN l[k] ELSE l[k + 1]]

\* index of the first entry of l that names node n, 0 when there is none
FirstIndexOf(l, n) ==
    IF \E k \in 1..Len(l) : l[k][1] = n
    THEN CHOOSE k \in 1..Len(l) : l[k][1] = n /\ \A h \in 1..(k - 1) : l[h][1] # n
    ELSE 0

\* --------------------------------------------------------------- class Node
\* resetNode without "self.adjacencies = []": the node keeps the list it has
resetNodeKeepsAdj(n) ==
    [adjacencies |-> IF n \in DOMAIN adjacencies THEN adjacencies[n] ELSE <<>>,
     numHopsFromRoot |-> Unvisited, upstreamNodeToRoot |-> n,
     valueToRoot |-> Unvisited, lowestBwPipeToRoot |-> NoBw]

\* Node.__init__ / Node.resetNode: the fields of a fresh or reset node
resetNode(n) ==
    [adjacencies |-> <<>>, numHopsFromRoot |-> Unvisited, upstreamNodeToRoot |-> n,
     valueToRoot |-> Unvisited, lowestBwPipeToRoot |-> NoBw]

\* ------------------------------------------------------- Graph.connectAdj
\* First loop of connectAdj: append every declared entry to the node's list.
LoadAdj(adj, dict) == [n \in DOMAIN dict |-> adj[n] \o dict[n]]

\* MergeEntry without "adjNode.adjacencies.append((node, nodeEdgeVal))"
MergeEntryNoMirror(adj, n, i, rt) ==
    LET adjNode == adj[n][i][1]
        adjEdgeVal == adj[n][i][2]
        j == FirstIndexOf(adj[adjNode], n)
        nodeEdgeVal ==
            IF j = 0 THEN adjEdgeVal
            ELSE IF rt = bestBandwidth THEN Max2(adjEdgeVal, adj[adjNode][j][2])
            ELSE Min2(adjEdgeVal, adj[adjNode][j][2])
        adj1 == IF j = 0 THEN adj ELSE [adj EXCEPT ![adjNode] = Pop(@, j)]
    IN  IF i > Len(adj1[n])
        THEN [adj |-> adj1, err |-> TRUE]
        ELSE [adj |-> [adj1 EXCEPT ![n] = Append(Pop(@, i), <<adjNode, nodeEdgeVal>>)],
              err |-> FALSE]

\* One turn of the loop "for i, (adjNode, adjEdgeVal) in enumerate(node.adjacencies)"
\* for node n at (1-based) position i.  err is TRUE when node.adjacencies.pop(i)
\* raises IndexError; adj is then the adjacency at the time of the raise.
MergeEntry(adj, n, i, rt) ==
    LET adjNode == adj[n][i][1]
        adjEdgeVal == adj[n][i][2]
        j == FirstIndexOf(adj[adjNode], n)
        nodeEdgeVal ==
            IF j = 0 THEN adjEdgeVal
            ELSE IF rt = bestBandwidth THEN Max2(adjEdgeVal, adj[adjNode][j][2])
            ELSE Min2(adjEdgeVal, adj[adjNode][j][2])
        adj1 == IF j = 0 THEN adj ELSE [adj EXCEPT ![adjNode] = Pop(@, j)]
    IN  IF i > Len(adj1[n])
        THEN [adj |-> adj1, err |-> TRUE]
        ELSE LET adj2 == [adj1 EXCEPT ![n] = Append(Pop(@, i), <<adjNode, nodeEdgeVal>>)]
                 adj3 == [adj2 EXCEPT ![adjNode] = Append(@, <<n, nodeEdgeVal>>)]
             IN  [adj |-> adj3, err |-> FALSE]

\* The enumerate loop over node.adjacencies from position i on: the list is
\* re-read at every turn, as the Python list iterator does.
RECURSIVE MergeNode(_, _, _, _)
MergeNodeNext(r, n, i, rt) == IF r.err THEN r ELSE MergeNode(r.adj, n, i + 1, rt)

MergeNode(adj, n, i, rt) ==
    IF i > Len(adj[n]) THEN [adj |-> adj, err |-> FALSE]
    ELSE MergeNodeNext(MergeEntry(adj, n, i, rt), n, i, rt)

\* The loop "for nodeName in self.nodeObjDict.keys()" of the undirected pass,
\* from node n on.
RECURSIVE MergePass(_, _, _)
MergePassNext(r, n, rt) == IF r.err THEN r ELSE MergePass(r.adj, n + 1, rt)

MergePass(adj, n, rt) ==
    IF n > Len(adj) THEN [adj |-> adj, err |-> FALSE]
    ELSE MergePassNext(MergeNode(adj, n, 1, rt), n, rt)

connectAdj(adj, dict, dir, rt) ==
    IF dir THEN [adj |-> LoadAdj(adj, dict), err |-> FALSE]
    ELSE MergePass(LoadAdj(adj, dict), 1, rt)

\* -------------------------------------------------- Graph.routeFromN1toN2
\* The routing state s is the record of the node fields the loop writes and
\* the deque: [hops, up, val, bw, q].  The deque is a sequence whose last
\* element is its right end: appendleft puts in front, pop takes the last.

\* Relax with the cost branch taken for every type but bestBandwidth
\* ("else" for "elif self.routingType == Routing.leastCost").
RelaxElse(s, node, m, w, rt) ==
    IF rt = bestBandwidth
    THEN IF s.bw[m] > s.bw[node] /\ w > s.bw[node]
         THEN [s EXCEPT !.up[node] = m,
                        !.bw[node] = Min2(s.bw[m], w),
                        !.val[node] = s.val[m] + w,
                        !.hops[node] = s.hops[m] + 1]
         ELSE s
    ELSE IF s.val[m] + w < s.val[node]
         THEN [s EXCEPT !.up[node] = m,
                        !.val[node] = s.val[m] + w,
                        !.bw[node] = Min2(s.bw[m], w),
                        !.hops[node] = s.hops[node] + 1]
         ELSE s

\* Relax with "<=" for "<" in the cost test and ">=" for ">" in the bandwidth test
RelaxOnTie(s, node, m, w, rt) ==
    IF rt = bestBandwidth
    THEN IF s.bw[m] >= s.bw[node] /\ w >= s.bw[node]
         THEN [s EXCEPT !.up[node] = m,
                        !.bw[node] = Min2(s.bw[m], w),
                        !.val[node] = s.val[m] + w,
                        !.hops[node] = s.hops[m] + 1]
         ELSE s
    ELSE IF rt = leastCost
    THEN IF s.val[m] + w <= s.val[node]
         THEN [s EXCEPT !.up[node] = m,
                        !.val[node] = s.val[m] + w,
                        !.bw[node] = Min2(s.bw[m], w),
                        !.hops[node] = s.hops[node] + 1]
         ELSE s
    ELSE s

\* Relax with the upstream reference taken from adjNode (the node itself), the
\* way line 235 takes the hop count
RelaxUpstreamAdj(s, node, m, w, rt) ==
    IF rt = bestBandwidth
    THEN IF s.bw[m] > s.bw[node] /\ w > s.bw[node]
         THEN [s EXCEPT !.up[node] = node,
                        !.bw[node] = Min2(s.bw[m], w),
                        !.val[node] = s.val[m] + w,
                        !.hops[node] = s.hops[m] + 1]
         ELSE s
    ELSE IF rt = leastCost
    THEN IF s.val[m] + w < s.val[node]
         THEN [s EXCEPT !.up[node] = node,
                        !.val[node] = s.val[m] + w,
                        !.bw[node] = Min2(s.bw[m], w),
                        !.hops[node] = s.hops[node] + 1]
         ELSE s
    ELSE s

\* The body of "if adjNode == node" for the visited node m with edge value w.
Relax(s, node, m, w, rt) ==
    IF rt = bestBandwidth
    THEN IF s.bw[m] > s.bw[node] /\ w > s.bw[node]
         THEN [s EXCEPT !.up[node] = m,
                        !.bw[node] = Min2(s.bw[m], w),
                        !.val[node] = s.val[m] + w,
                        !.hops[node] = s.hops[m] + 1]
         ELSE s
    ELSE IF rt = leastCost
    THEN IF s.val[m] + w < s.val[node]
         THEN [s EXCEPT !.up[node] = m,
                        !.val[node] = s.val[m] + w,
                        !.bw[node] = Min2(s.bw[m], w),
                        !.hops[node] = s.hops[node] + 1]
         ELSE s
    ELSE s

\* "for (adjNode, adjNodeEdgeVal) in self.nodeObjDict[nodeNm].adjacencies"
RECURSIVE ScanEntries(_, _, _, _, _, _)
ScanEntries(s, adj, node, m, k, rt) ==
    IF k > Len(adj[m]) THEN s
    ELSE ScanEntries(IF adj[m][k][1] = node THEN Relax(s, node, m, adj[m][k][2], rt) ELSE s,
                     adj, node, m, k + 1, rt)

\* "for nodeNm in self.nodeObjDict.keys()": the relaxation scan for node
RECURSIVE ScanNodes(_, _, _, _, _)
ScanNodes(s, adj, node, m, rt) ==
    IF m > Len(adj) THEN s
    ELSE ScanNodes(IF s.hops[m] # Unvisited THEN ScanEntries(s, adj, node, m, 1, rt) ELSE s,
                   adj, node, m + 1, rt)

\* Discover with "nodeQ.append(adjNode)" for "nodeQ.appendleft(adjNode)"
DiscoverAppendRight(s, node, adjNode, w) ==
    [s EXCEPT !.hops[adjNode] = s.hops[node] + 1,
              !.up[adjNode] = node,
              !.bw[adjNode] = Min2(s.bw[node], w),
              !.val[adjNode] = s.val[node] + w,
              !.q = @ \o <<adjNode>>]

\* Discover without "nodeQ.appendleft(adjNode)"
DiscoverNoEnqueue(s, node, adjNode, w) ==
    [s EXCEPT !.hops[adjNode] = s.hops[node] + 1,
              !.up[adjNode] = node,
              !.bw[adjNode] = Min2(s.bw[node], w),
              !.val[adjNode] = s.val[node] + w]

\* The body of "if adjNode.numHopsFromRoot == -1" for the entry (adjNode, w)
Discover(s, node, adjNode, w) ==
    [s EXCEPT !.hops[adjNode] = s.hops[node] + 1,
              !.up[adjNode] = node,
              !.bw[adjNode] = Min2(s.bw[node], w),
              !.val[adjNode] = s.val[node] + w,
              !.q = <<adjNode>> \o @]

\* "for (adjNode, adjNodeEdgeVal) in node.adjacencies": enqueue the unvisited
RECURSIVE Expand(_, _, _, _)
Expand(s, adj, node, k) ==
    IF k > Len(adj[node]) THEN s
    ELSE Expand(IF s.hops[adj[node][k][1]] = Unvisited
                THEN Discover(s, node, adj[node][k][1], adj[node][k][2]) ELSE s,
                adj, node, k + 1)

\* One turn of "while len(nodeQ) > 0": pop, relaxation scan, expansion
ProcessNode(s, adj, rt) ==
    LET node == s.q[Len(s.q)]
        s1 == [s EXCEPT !.q = SubSeq(@, 1, Len(@) - 1)]
    IN  Expand(ScanNodes(s1, adj, node, 1, rt), adj, node, 1)

RECURSIVE RunLoop(_, _, _)
RunLoop(s, adj, rt) ==
    IF Len(s.q) > 0 THEN RunLoop(ProcessNode(s, adj, rt), adj, rt) ELSE s

\* Seed without "self.nodeObjDict[self.rootNodeName].valueToRoot = 0"
SeedNoValue(root) ==
    [hops |-> [n \in Nodes |-> IF n = root THEN 0 ELSE resetNode(n).numHopsFromRoot],
     up   |-> [n \in Nodes |-> resetNode(n).upstreamNodeToRoot],
     val  |-> [n \in Nodes |-> resetNode(n).valueToRoot],
     bw   |-> [n \in Nodes |-> resetNode(n).lowestBwPipeToRoot],
     q    |-> <<root>>]

\* The node fields after the reset loop and the seeding of the root.
Seed(root) ==
    [hops |-> [n \in Nodes |-> IF n = root THEN 0 ELSE resetNode(n).numHopsFromRoot],
     up   |-> [n \in Nodes |-> resetNode(n).upstreamNodeToRoot],
     val  |-> [n \in Nodes |-> IF n = root THEN 0 ELSE resetNode(n).valueToRoot],
     bw   |-> [n \in Nodes |-> resetNode(n).lowestBwPipeToRoot],
     q    |-> <<root>>]

\* A whole call of routeFromN1toN2 on validated names: reset, connectAdj,
\* seeding, the while loop.  The result is the record of everything the call
\* leaves in the Graph and its nodes; err is TRUE when connectAdj raised.
RouteAfterConnect(c, root, rt) ==
    [adj |-> c.adj, err |-> c.err,
     s |-> IF c.err
           THEN [hops |-> [n \in Nodes |-> resetNode(n).numHopsFromRoot],
                 up   |-> [n \in Nodes |-> resetNode(n).upstreamNodeToRoot],
                 val  |-> [n \in Nodes |-> resetNode(n).valueToRoot],
                 bw   |-> [n \in Nodes |-> resetNode(n).lowestBwPipeToRoot],
                 q    |-> <<>>]
           ELSE RunLoop(Seed(root), c.adj, rt)]

RouteResult(dict, dir, root, rt) ==
    RouteAfterConnect(connectAdj([n \in Nodes |-> resetNode(n).adjacencies], dict, dir, rt),
                      root, rt)

\* --------------------------------------------- Graph.getPathAndParamsNode
\* The back trace "while usNode.upstreamNodeToRoot != usNode", end node first.
\* fuel bounds the walk: a chain without a cycle takes fewer steps than there
\* are nodes, so a trace of one name more stands for a loop that never ends.
RECURSIVE BackTrace(_, _, _)
BackTrace(up, n, fuel) ==
    IF up[n] = n \/ fuel = 0 THEN <<n>>
    ELSE <<n>> \o BackTrace(up, up[n], fuel - 1)

Reverse(l) == [k \in 1..Len(l) |-> l[Len(l) + 1 - k]]

PathOf(up, endNode) == Reverse(BackTrace(up, endNode, Len(up)))

getPathAndParamsNode(endNode) ==
    <<PathOf(upstreamNodeToRoot, endNode), valueToRoot[endNode],
      lowestBwPipeToRoot[endNode], numHopsFromRoot[endNode]>>

\* ------------------------------------------------------ declared graphs
\* The generated dictionaries have the keys 1..NumNodes.
Keys == 1..NumNodes

AdjLists(len) == UNION {[1..k -> Keys \X Weights] : k \in 0..len}

\* Small dictionaries: any entries at all (self loops, repeated neighbours,
\* reciprocal pairs), at most MaxAdj per key and MaxEdges in all.
RECURSIVE Dicts(_, _)
Dicts(n, budget) ==
    IF n = 0 THEN {<<>>}
    ELSE UNION {{<<l>> \o d : d \in Dicts(n - 1, budget - Len(l))}
                : l \in AdjLists(Min2(MaxAdj, budget))}

SmallDicts == Dicts(NumNodes, MaxEdges)

\* the lists that name every node of S at most once, with weights from W
ListsOver(S, W) ==
    {l \in UNION {[1..k -> S \X W] : k \in 0..Cardinality(S)} :
        \A i, j \in 1..Len(l) : i # j => l[i][1] # l[j][1]}

\* Simple dictionaries: the keys 1..SimpleNodes list any of the other keys
\* 1..SimpleNodes, each at most once and in any order; later keys list nothing.
RECURSIVE SimpleUpTo(_)
SimpleUpTo(n) ==
    IF n = 0 THEN {<<>>}
    ELSE {Append(d, l) : d \in SimpleUpTo(n - 1),
                         l \in IF n <= SimpleNodes
                               THEN ListsOver((1..SimpleNodes) \ {n}, Weights)
                               ELSE {<<>>}}

SimpleDicts == SimpleUpTo(NumNodes)

\* Forward dictionaries: every key lists later keys only, each at most once and
\* in any order, with weights from W.
RECURSIVE ForwardUpTo(_, _)
ForwardUpTo(n, W) ==
    IF n = 0 THEN {<<>>}
    ELSE {Append(d, l) : d \in ForwardUpTo(n - 1, W),
                         l \in ListsOver((n + 1)..NumNodes, W)}

ForwardDicts(W) == ForwardUpTo(NumNodes, W)

GraphSpecs == SmallDicts \cup SimpleDicts \cup ForwardDicts(Weights)

WideSpecs == ForwardDicts(0..(MaxWeight + 1))

\* Forward dictionaries whose weights are 0 or as large as the 999 a Node's
\* lowestBwPipeToRoot starts from.
HeavySpecs == ForwardDicts({0, NoBw})

\* Dictionaries as a caller may hand them in: an entry may name NumNodes + 1,
\* which is no key.
Names == 1..(NumNodes + 1)

RawLists(len) == UNION {[1..k -> Names \X Weights] : k \in 0..len}

RECURSIVE RawDicts(_, _)
RawDicts(n, budget) ==
    IF n = 0 THEN {<<>>}
    ELSE UNION {{<<l>> \o d : d \in RawDicts(n - 1, budget - Len(l))}
                : l \in RawLists(Min2(MaxAdj, budget))}

\* The dictionary of the module's main program and of test1_comprehensive,
\* with 1..7 for the keys 'a'..'g'.
ScenarioDict ==
    << <<(<<2, 3>>)>>,
       <<(<<1, 5>>), (<<3, 5>>), (<<4, 9>>)>>,
       <<(<<2, 23>>), (<<4, 7>>)>>,
       <<(<<2, 1>>), (<<3, 6>>)>>,
       <<(<<4, 8>>)>>,
       <<(<<7, 8>>)>>,
       <<(<<6, 10>>)>> >>

SessionSpecs == RawDicts(NumNodes, SessionEdges) \cup {ScenarioDict}

\* ------------------------------------------------------------ the machine
\* Graph.__init__ on a dictionary whose adjacencies all name keys.
Constructed(dict, dir) ==
    /\ nodeAdjD = dict
    /\ nodeAdjDict = dict
    /\ directed = dir
    /\ rootNodeName = 0
    /\ node2Name = 0
    /\ routingType = minHopCount
    /\ adjacencies = [n \in Nodes |-> resetNode(n).adjacencies]
    /\ numHopsFromRoot = [n \in Nodes |-> resetNode(n).numHopsFromRoot]
    /\ upstreamNodeToRoot = [n \in Nodes |-> resetNode(n).upstreamNodeToRoot]
    /\ valueToRoot = [n \in Nodes |-> resetNode(n).valueToRoot]
    /\ lowestBwPipeToRoot = [n \in Nodes |-> resetNode(n).lowestBwPipeToRoot]
    /\ nodeQ = <<>>
    /\ outcome = "constructed"
    /\ calls = 0
    /\ previous = <<>>
    /\ enqueued = <<>>
    /\ dequeued = <<>>

Init == \E dict \in GraphSpecs, dir \in BOOLEAN : Constructed(dict, dir)

InitWide == \E dict \in WideSpecs : Constructed(dict, TRUE)

\* The caller is about to run Graph(dict, dir, log): there is no Graph yet, so
\* no dictionary of the Graph and no Node.
Start(dict, dir) ==
    /\ nodeAdjD = dict
    /\ nodeAdjDict = <<>>
    /\ directed = dir
    /\ rootNodeName = 0
    /\ node2Name = 0
    /\ routingType = minHopCount
    /\ adjacencies = <<>>
    /\ numHopsFromRoot = <<>>
    /\ upstreamNodeToRoot = <<>>
    /\ valueToRoot = <<>>
    /\ lowestBwPipeToRoot = <<>>
    /\ nodeQ = <<>>
    /\ outcome = "start"
    /\ calls = 0
    /\ previous = <<>>
    /\ enqueued = <<>>
    /\ dequeued = <<>>

InitSession == \E dict \in SessionSpecs, dir \in BOOLEAN : Start(dict, dir)

\* the verification loop of Graph.__init__ with the test on the first entry of
\* every list only
FirstAdjNameIsKey(dict) ==
    \A n \in DOMAIN dict : Len(dict[n]) > 0 => dict[n][1][1] \in DOMAIN dict

\* The verification loop of Graph.__init__: every adjacency names a key.
AdjNamesAreKeys(dict) ==
    \A n \in DOMAIN dict : \A k \in 1..Len(dict[n]) : dict[n][k][1] \in DOMAIN dict

\* Graph.__init__: the assertion raises out of the constructor, and the caller
\* is left without a Graph ("rejected"); otherwise the Graph is constructed.
GraphInit ==
    /\ outcome = "start"
    /\ IF AdjNamesAreKeys(nodeAdjD)
       THEN /\ nodeAdjDict' = nodeAdjD
            /\ adjacencies' = [n \in DOMAIN nodeAdjD |-> resetNode(n).adjacencies]
            /\ numHopsFromRoot' = [n \in DOMAIN nodeAdjD |-> resetNode(n).numHopsFromRoot]
            /\ upstreamNodeToRoot' = [n \in DOMAIN nodeAdjD |-> resetNode(n).upstreamNodeToRoot]
            /\ valueToRoot' = [n \in DOMAIN nodeAdjD |-> resetNode(n).valueToRoot]
            /\ lowestBwPipeToRoot' = [n \in DOMAIN nodeAdjD |-> resetNode(n).lowestBwPipeToRoot]
            /\ outcome' = "constructed"
       ELSE /\ outcome' = "rejected"
            /\ UNCHANGED <<nodeAdjDict, adjacencies, numHopsFromRoot, upstreamNodeToRoot,
                           valueToRoot, lowestBwPipeToRoot>>
    /\ UNCHANGED <<nodeAdjD, directed, rootNodeName, node2Name, routingType, nodeQ,
                   calls, previous, enqueued, dequeued>>

\* the methods of a Graph can be called once the constructor has returned one
GraphExists == outcome \notin {"start", "rejected", "running"}

\* What a call that got past its two assertions leaves behind: r is the
\* RouteResult of the call.
Install(node1Name, node2Nm, rt, r) ==
    /\ rootNodeName' = node1Name
    /\ node2Name' = node2Nm
    /\ routingType' = rt
    /\ adjacencies' = r.adj
    /\ numHopsFromRoot' = r.s.hops
    /\ upstreamNodeToRoot' = r.s.up
    /\ valueToRoot' = r.s.val
    /\ lowestBwPipeToRoot' = r.s.bw
    /\ nodeQ' = r.s.q
    /\ outcome' = IF r.err THEN "IndexError" ELSE "routed"
    /\ UNCHANGED <<nodeAdjDict, directed>>

\* Refuse with the parameters saved (lines 174-176) before the assertions
RefuseAfterSave(node1Name, node2Nm, rt) ==
    /\ outcome' = "AssertionError"
    /\ rootNodeName' = node1Name
    /\ node2Name' = node2Nm
    /\ routingType' = rt
    /\ UNCHANGED <<nodeAdjDict, directed, adjacencies, numHopsFromRoot,
                   upstreamNodeToRoot, valueToRoot, lowestBwPipeToRoot, nodeQ>>

\* One of the two assertions of routeFromN1toN2 raises: nothing was assigned yet.
Refuse(node1Name, node2Nm, rt) ==
    /\ outcome' = "AssertionError"
    /\ UNCHANGED <<nodeAdjDict, directed, rootNodeName, node2Name, routingType,
                   adjacencies, numHopsFromRoot, upstreamNodeToRoot, valueToRoot,
                   lowestBwPipeToRoot, nodeQ>>

routeFromN1toN2(node1Name, node2Nm, rt) ==
    /\ GraphExists
    /\ calls' = calls + 1
    /\ previous' = <<rootNodeName, routingType, outcome>>
    /\ UNCHANGED <<nodeAdjD, enqueued, dequeued>>
    /\ IF node1Name \in Nodes /\ node2Nm \in Nodes
       THEN Install(node1Name, node2Nm, rt,
                    RouteResult(nodeAdjDict, directed, node1Name, rt))
       ELSE Refuse(node1Name, node2Nm, rt)

Route ==
    /\ calls < MaxCalls
    /\ \E node1Name \in Nodes, node2Nm \in Targets, rt \in RoutingTypes :
           routeFromN1toN2(node1Name, node2Nm, rt)

Next == Route

Spec == Init /\ [][Next]_vars

SpecWide == InitWide /\ [][Next]_vars

InitHeavy == \E dict \in HeavySpecs : Constructed(dict, TRUE)

SpecHeavy == InitHeavy /\ [][Next]_vars

\* A session on one Graph: the constructor, then up to MaxRequests requests,
\* with declared names or with a name that is no key.
Request ==
    /\ calls < MaxRequests
    /\ \E node1Name \in Nodes, node2Nm \in Targets, rt \in RoutingTypes :
           routeFromN1toN2(node1Name, node2Nm, rt)

UnknownName == Len(nodeAdjDict) + 1

RequestUnknown ==
    /\ calls < MaxRequests
    /\ \E node1Name \in {1, UnknownName}, node2Nm \in {1, UnknownName}, rt \in RoutingTypes :
           /\ node1Name = UnknownName \/ node2Nm = UnknownName
           /\ routeFromN1toN2(node1Name, node2Nm, rt)

NextSession == GraphInit \/ Request \/ RequestUnknown

SpecSession == InitSession /\ [][NextSession]_vars

\* The while loop of routeFromN1toN2 one turn at a time.  Begin is the call up
\* to the loop (assertions passed, parameters saved, reset, connectAdj, the
\* root seeded), Turn one turn of the loop, Finish the return once the deque
\* is empty.  enqueued and dequeued record the appendleft and pop calls.
LoopSpecs == Dicts(NumNodes, SessionEdges) \cup ForwardDicts({0})

InitLoop == \E dict \in LoopSpecs, dir \in BOOLEAN : Constructed(dict, dir)

BeginWith(node1Name, node2Nm, rt, c) ==
    /\ rootNodeName' = node1Name
    /\ node2Name' = node2Nm
    /\ routingType' = rt
    /\ adjacencies' = c.adj
    /\ numHopsFromRoot' = IF c.err THEN [n \in Nodes |-> resetNode(n).numHopsFromRoot]
                                     ELSE Seed(node1Name).hops
    /\ upstreamNodeToRoot' = Seed(node1Name).up
    /\ valueToRoot' = IF c.err THEN [n \in Nodes |-> resetNode(n).valueToRoot]
                                 ELSE Seed(node1Name).val
    /\ lowestBwPipeToRoot' = Seed(node1Name).bw
    /\ nodeQ' = IF c.err THEN <<>> ELSE Seed(node1Name).q
    /\ enqueued' = IF c.err THEN <<>> ELSE Seed(node1Name).q
    /\ dequeued' = <<>>
    /\ outcome' = IF c.err THEN "IndexError" ELSE "running"

Begin ==
    /\ GraphExists
    /\ calls < MaxCalls
    /\ calls' = calls + 1
    /\ previous' = <<rootNodeName, routingType, outcome>>
    /\ UNCHANGED <<nodeAdjD, nodeAdjDict, directed>>
    /\ \E node1Name \in Nodes, node2Nm \in Targets, rt \in RoutingTypes :
           BeginWith(node1Name, node2Nm, rt,
                     connectAdj([n \in Nodes |-> resetNode(n).adjacencies],
                                nodeAdjDict, directed, rt))

\* the nodes a turn put on the deque, in the order of the appendleft calls:
\* q is the deque after the turn, rest the length of what the pop left
NewlyEnqueued(q, rest) == Reverse(SubSeq(q, 1, Len(q) - rest))

TurnWith(s) ==
    /\ numHopsFromRoot' = s.hops
    /\ upstreamNodeToRoot' = s.up
    /\ valueToRoot' = s.val
    /\ lowestBwPipeToRoot' = s.bw
    /\ nodeQ' = s.q
    /\ enqueued' = enqueued \o NewlyEnqueued(s.q, Len(nodeQ) - 1)
    /\ dequeued' = Append(dequeued, nodeQ[Len(nodeQ)])

\* (the result of the turn is bound once, as a value, and then assigned)
Turn ==
    /\ outcome = "running"
    /\ Len(nodeQ) > 0
    /\ \E s \in {ProcessNode([hops |-> numHopsFromRoot, up |-> upstreamNodeToRoot,
                             val |-> valueToRoot, bw |-> lowestBwPipeToRoot,
                             q |-> nodeQ],
                            adjacencies, routingType)} : TurnWith(s)
    /\ UNCHANGED <<nodeAdjD, nodeAdjDict, directed, rootNodeName, node2Name, routingType,
                   adjacencies, outcome, calls, previous>>

Finish ==
    /\ outcome = "running"
    /\ Len(nodeQ) = 0
    /\ outcome' = "routed"
    /\ UNCHANGED <<nodeAdjD, nodeAdjDict, directed, rootNodeName, node2Name, routingType,
                   adjacencies, numHopsFromRoot, upstreamNodeToRoot, valueToRoot,
                   lowestBwPipeToRoot, nodeQ, calls, previous, enqueued, dequeued>>

NextLoop == Begin \/ Turn \/ Finish

\* A call that has started runs on: nothing suspends the loop or the return.
SpecLoop == InitLoop /\ [][NextLoop]_vars /\ WF_vars(Turn) /\ WF_vars(Finish)

\* ------------------------------------------------------------- properties
Routed == outcome = "routed"

Reached(n) == numHopsFromRoot[n] # Unvisited

\* the nodes an entry of a node of S names, in the runtime adjacency
Successors(S) ==
    UNION {{adjacencies[u][k][1] : k \in 1..Len(adjacencies[u])} : u \in S}

Grow(S) == S \cup Successors(S)

\* the nodes some path of at most k edges leads to from the root
RECURSIVE Within(_)
Within(k) == IF k = 0 THEN {rootNodeName} ELSE Grow(Within(k - 1))

Reachable == Within(Len(nodeAdjDict))

\* the least number of edges of a path from the root to the reachable node n
Dist(n) == CHOOSE k \in 0..Len(nodeAdjDict) : n \in Within(k) /\ (k = 0 \/ n \notin Within(k - 1))

HasEdge(u, v) == \E k \in 1..Len(adjacencies[u]) : adjacencies[u][k][1] = v

Path(n) == getPathAndParamsNode(n)[1]

\* C1: after a successful leastCost request every edge (u, v, w) of the runtime
\* adjacency between reached nodes satisfies valueToRoot[v] <= valueToRoot[u] + w.
TriangleInequality ==
    (Routed /\ routingType = leastCost) =>
        \A u \in Nodes : \A k \in 1..Len(adjacencies[u]) :
            (Reached(u) /\ Reached(adjacencies[u][k][1])) =>
                valueToRoot[adjacencies[u][k][1]] <= valueToRoot[u] + adjacencies[u][k][2]

\* C2: after a successful bestBandwidth request every edge (u, v, w) of the
\* runtime adjacency between reached nodes satisfies
\* lowestBwPipeToRoot[v] >= min(lowestBwPipeToRoot[u], w).
BottleneckOptimality ==
    (Routed /\ routingType = bestBandwidth) =>
        \A u \in Nodes : \A k \in 1..Len(adjacencies[u]) :
            (Reached(u) /\ Reached(adjacencies[u][k][1])) =>
                lowestBwPipeToRoot[adjacencies[u][k][1]] >=
                    Min2(lowestBwPipeToRoot[u], adjacencies[u][k][2])

\* C3: after a successful minHopCount request every node reachable from the root
\* has numHopsFromRoot equal to the least number of edges of a path from the
\* root, and the path getPathAndParamsNode returns has that many edges.
MinHopsExact ==
    (Routed /\ routingType = minHopCount) =>
        \A n \in Reachable :
            /\ numHopsFromRoot[n] = Dist(n)
            /\ Len(Path(n)) - 1 = Dist(n)

\* a minHopCount request reached a node two or more hops away that a second
\* reachable node, not its upstream, also has an edge to
MinHopsExactWitness ==
    /\ Routed /\ routingType = minHopCount
    /\ \E n \in Reachable, u \in Reachable :
           /\ Dist(n) >= 2
           /\ u # upstreamNodeToRoot[n] /\ u # n
           /\ HasEdge(u, n)

\* C4: after any successful request getPathAndParamsNode(root) is ([root], 0, 999, 0).
RootIdentity ==
    Routed => getPathAndParamsNode(rootNodeName) = <<(<<rootNodeName>>), 0, NoBw, 0>>

\* a successful request whose root has a self loop and an edge from another
\* reached node
RootIdentityWitness ==
    /\ Routed
    /\ HasEdge(rootNodeName, rootNodeName)
    /\ \E u \in Nodes \ {rootNodeName} : Reached(u) /\ HasEdge(u, rootNodeName)
    /\ getPathAndParamsNode(rootNodeName)[4] = 0

\* C5: after any successful request a node other than the root has no path from
\* the root exactly when getPathAndParamsNode gives ([v], -1, 999, -1) for it,
\* and every reachable node has cost and hop count other than -1.
UnreachableIdentity ==
    Routed =>
        \A v \in Nodes \ {rootNodeName} :
            /\ (v \notin Reachable) <=>
                   (getPathAndParamsNode(v) = <<(<<v>>), Unvisited, NoBw, Unvisited>>)
            /\ (v \in Reachable) =>
                   (valueToRoot[v] # Unvisited /\ numHopsFromRoot[v] # Unvisited)

\* a successful request left a node unreachable although it has an edge to a
\* reachable node, and reached another node two hops away
UnreachableIdentityWitness ==
    /\ Routed
    /\ \E v \in Nodes \ Reachable : \E u \in Reachable :
           /\ HasEdge(v, u)
           /\ getPathAndParamsNode(v) = <<(<<v>>), Unvisited, NoBw, Unvisited>>
    /\ \E n \in Reachable : Dist(n) = 2

\* the node k steps up the upstream references from n
RECURSIVE Upstream(_, _)
Upstream(n, k) == IF k = 0 THEN n ELSE upstreamNodeToRoot[Upstream(n, k - 1)]

\* C6: after a completed routing pass the upstream references of every reached
\* node lead to the root in at most |nodes| steps, and the root refers to itself.
UpstreamChainsEndAtRoot ==
    Routed =>
        /\ upstreamNodeToRoot[rootNodeName] = rootNodeName
        /\ \A n \in Nodes : Reached(n) =>
               \E k \in 0..Len(nodeAdjDict) : Upstream(n, k) = rootNodeName

\* a leastCost or bestBandwidth request reached a node two or more references
\* from the root that has an edge back to its own upstream node
UpstreamChainsWitness ==
    /\ Routed /\ routingType # minHopCount
    /\ \E n \in Nodes :
           /\ Reached(n)
           /\ Upstream(n, 1) # rootNodeName /\ Upstream(n, 1) # n
           /\ HasEdge(n, Upstream(n, 1))
           /\ HasEdge(Upstream(n, 1), n)

\* C7: after a successful request the path returned for a reachable node other
\* than the root starts with the root, ends with the node, and its last two
\* elements are an edge of the runtime adjacency.
PathBackPointerConsistent ==
    Routed =>
        \A n \in Reachable \ {rootNodeName} :
            /\ Len(Path(n)) >= 2
            /\ Path(n)[1] = rootNodeName
            /\ Path(n)[Len(Path(n))] = n
            /\ HasEdge(Path(n)[Len(Path(n)) - 1], n)

\* a request returned a path of three or more nodes for a node whose upstream
\* is not the first reached node that has an edge to it
PathBackPointerWitness ==
    /\ Routed
    /\ \E n \in Reachable \ {rootNodeName} :
           /\ Len(Path(n)) >= 3
           /\ \E u \in Nodes : /\ u < upstreamNodeToRoot[n]
                               /\ Reached(u)
                               /\ HasEdge(u, n)

\* the (cost, bottleneck) pairs of the first k nodes of path p, over the choices
\* of an adjacency entry for every step
RECURSIVE Metrics(_, _)
Metrics(p, k) ==
    IF k <= 1 THEN {<<0, NoBw>>}
    ELSE {<<m[1] + adjacencies[p[k - 1]][i][2], Min2(m[2], adjacencies[p[k - 1]][i][2])>> :
            m \in Metrics(p, k - 1),
            i \in {h \in 1..Len(adjacencies[p[k - 1]]) : adjacencies[p[k - 1]][h][1] = p[k]}}

\* C8: after a successful request the cost returned for a reachable node is the
\* sum, and the bottleneck the minimum, of the edge weights along the returned path.
MetricsDescribePath ==
    Routed =>
        \A n \in Reachable :
            <<valueToRoot[n], lowestBwPipeToRoot[n]>> \in Metrics(Path(n), Len(Path(n)))

\* C9: after a successful request the hop count returned for a reachable node is
\* the number of edges of the returned path, len(path) - 1.
HopCountIsPathLength ==
    Routed => \A n \in Reachable : numHopsFromRoot[n] = Len(Path(n)) - 1

\* the weights of the entries of list l that name node v
WeightsTo(l, v) == {l[k][2] : k \in {h \in 1..Len(l) : l[h][1] = v}}

DeclaredOnce(u, v) == Cardinality({k \in 1..Len(nodeAdjDict[u]) : nodeAdjDict[u][k][1] = v}) = 1

MergedWeight(w1, w2) == IF routingType = bestBandwidth THEN Max2(w1, w2) ELSE Min2(w1, w2)

\* C10: in undirected mode, when u declares v once with w1 and v declares u once
\* with w2, after connectAdj the entries of u for v and of v for u all carry
\* max(w1, w2) for bestBandwidth and min(w1, w2) otherwise.
UndirectedWeightsSymmetric ==
    (Routed /\ ~directed) =>
        \A u, v \in Nodes :
            (u # v /\ DeclaredOnce(u, v) /\ DeclaredOnce(v, u)) =>
                \A w1 \in WeightsTo(nodeAdjDict[u], v), w2 \in WeightsTo(nodeAdjDict[v], u) :
                    /\ WeightsTo(adjacencies[u], v) = {MergedWeight(w1, w2)}
                    /\ WeightsTo(adjacencies[v], u) = {MergedWeight(w1, w2)}

Declares(u, v) == \E k \in 1..Len(nodeAdjDict[u]) : nodeAdjDict[u][k][1] = v

HasUnknownNeighbor ==
    \E n \in DOMAIN nodeAdjD : \E k \in 1..Len(nodeAdjD[n]) :
        nodeAdjD[n][k][1] \notin DOMAIN nodeAdjD

\* C12: Graph.__init__ on a dictionary with a neighbour that is no key ends in
\* the AssertionError and leaves no Graph and no Node; on a dictionary whose
\* neighbours are all keys it returns a Graph with exactly one Node per key,
\* each with hops -1, value -1, bottleneck 999, itself as upstream and an
\* empty adjacency.
ConstructorValidates ==
    /\ (outcome # "start" /\ HasUnknownNeighbor) =>
           /\ outcome = "rejected"
           /\ nodeAdjDict = <<>>
           /\ DOMAIN numHopsFromRoot = {}
           /\ DOMAIN adjacencies = {}
    /\ (outcome # "start" /\ ~HasUnknownNeighbor) => outcome # "rejected"
    /\ outcome = "constructed" =>
           /\ nodeAdjDict = nodeAdjD
           /\ DOMAIN adjacencies = DOMAIN nodeAdjD
           /\ DOMAIN numHopsFromRoot = DOMAIN nodeAdjD
           /\ DOMAIN valueToRoot = DOMAIN nodeAdjD
           /\ DOMAIN lowestBwPipeToRoot = DOMAIN nodeAdjD
           /\ DOMAIN upstreamNodeToRoot = DOMAIN nodeAdjD
           /\ \A n \in DOMAIN nodeAdjD :
                  /\ numHopsFromRoot[n] = -1
                  /\ valueToRoot[n] = -1
                  /\ lowestBwPipeToRoot[n] = 999
                  /\ upstreamNodeToRoot[n] = n
                  /\ adjacencies[n] = <<>>

\* the constructor refused a dictionary in which a list names a key first and
\* then a name that is no key
ConstructorValidatesWitness ==
    /\ outcome = "rejected"
    /\ \E n \in DOMAIN nodeAdjD :
           /\ Len(nodeAdjD[n]) = 2
           /\ nodeAdjD[n][1][1] \in DOMAIN nodeAdjD
           /\ nodeAdjD[n][2][1] \notin DOMAIN nodeAdjD

\* C13: a routeFromN1toN2 call whose root or target is no key ends in the
\* AssertionError and changes nothing: every node's adjacency, hop count,
\* value, bottleneck and upstream, and the saved root, target and objective,
\* are what they were before the call.
UnknownNameChangesNothing ==
    [][/\ RequestUnknown => outcome' = "AssertionError"
       /\ (GraphExists /\ outcome' = "AssertionError") =>
              UNCHANGED <<adjacencies, numHopsFromRoot, valueToRoot, lowestBwPipeToRoot,
                          upstreamNodeToRoot, rootNodeName, node2Name, routingType>>]_vars

\* a call with an unknown name was refused after a successful request, whose
\* path of two or more nodes can still be read
UnknownNameWitness ==
    /\ outcome = "AssertionError"
    /\ previous[3] = "routed"
    /\ \E n \in Nodes : Reached(n) /\ Len(Path(n)) >= 2 /\ Path(n)[1] = rootNodeName

\* what the last request leaves when it is the only request made on a Graph
\* freshly constructed from the same dictionary and directedness
LastRequestAlone ==
    RouteAfterConnect(connectAdj([n \in Nodes |-> <<>>], nodeAdjDict, directed, routingType),
                      rootNodeName, routingType)

SameNodeState(r) ==
    /\ ~r.err
    /\ adjacencies = r.adj
    /\ numHopsFromRoot = r.s.hops
    /\ valueToRoot = r.s.val
    /\ lowestBwPipeToRoot = r.s.bw
    /\ upstreamNodeToRoot = r.s.up

\* C14: after any sequence of requests that ends with a successful one, every
\* node's adjacency, hop count, value, bottleneck and upstream are those a
\* freshly constructed Graph has after that last request alone, whatever the
\* earlier requests and the target were.
RequestsIndependent == Routed => SameNodeState(LastRequestAlone)

\* a second successful request, with another root and another objective than
\* the successful request before it, reached a node other than its root
RequestsIndependentWitness ==
    /\ Routed
    /\ calls = 2
    /\ previous[3] = "routed"
    /\ previous[1] # rootNodeName
    /\ previous[2] # routingType
    /\ \E n \in Nodes \ {rootNodeName} : Reached(n)

\* the set of (neighbour, weight) entries of list l
EntrySet(l) == {l[k] : k \in 1..Len(l)}

SameEntries(r) ==
    /\ ~r.err
    /\ \A n \in Nodes : EntrySet(r.adj[n]) = EntrySet(adjacencies[n])

\* C15: in undirected mode the merge pass of connectAdj, run a second time on
\* the adjacency a first run produced, leaves every node's set of
\* (neighbour, weight) entries unchanged.
MergePassIdempotent ==
    (Routed /\ ~directed) => SameEntries(MergePass(adjacencies, 1, routingType))

\* C16: after a successful request a node's bottleneck is 999 only if the node
\* is the root or has no path from the root.
SentinelMeansRootOrUnreachable ==
    Routed =>
        \A n \in Nodes :
            lowestBwPipeToRoot[n] = 999 => (n = rootNodeName \/ n \notin Reachable)

\* the dictionary of the tests, undirected, after a leastCost request from 'a'
ScenarioRouted ==
    /\ nodeAdjDict = ScenarioDict
    /\ ~directed
    /\ Routed
    /\ rootNodeName = 1
    /\ routingType = leastCost

\* C17: for the dictionary of the tests in undirected mode with root 'a' and
\* leastCost, getPathAndParamsNode('d') is (['a','b','d'], 4, 1, 2) and
\* getPathAndParamsNode('e') is (['a','b','d','e'], 12, 1, 3).
ScenarioLeastCost ==
    ScenarioRouted =>
        /\ getPathAndParamsNode(4) = <<(<<1, 2, 4>>), 4, 1, 2>>
        /\ getPathAndParamsNode(5) = <<(<<1, 2, 4, 5>>), 12, 1, 3>>

\* the leastCost request from 'a' on the undirected dictionary of the tests
\* was the first request, and 'd' holds the edge to 'e' that only 'e' declared
ScenarioLeastCostWitness ==
    /\ ScenarioRouted
    /\ calls = 1
    /\ <<5, 8>> \in EntrySet(adjacencies[4])
    /\ Reached(5)

NoRepeat(l) == \A i, j \in 1..Len(l) : i # j => l[i] # l[j]

\* while the loop runs: no node was put on the deque twice, the nodes were
\* popped in the order they were put on it, the deque holds the nodes not yet
\* popped (the oldest at its right end), and no more nodes were popped than
\* there are
QueueDiscipline ==
    /\ NoRepeat(enqueued)
    /\ Len(dequeued) <= Len(enqueued)
    /\ dequeued = SubSeq(enqueued, 1, Len(dequeued))
    /\ nodeQ = Reverse(SubSeq(enqueued, Len(dequeued) + 1, Len(enqueued)))
    /\ Len(dequeued) <= Cardinality(Nodes)
    /\ \A k \in 1..Len(enqueued) : Reached(enqueued[k])

\* C18: every request on validated names terminates: the deque is worked
\* first in first out in the order of discovery, every node is put on it at
\* most once and popped at most once, so the loop makes at most |nodes| pops
\* and then ends with the deque empty.
RequestTerminates ==
    /\ [](outcome \in {"running", "routed"} => QueueDiscipline)
    /\ [](Routed => (nodeQ = <<>> /\ dequeued = enqueued))
    /\ (outcome = "running") ~> Routed

\* a request ended after popping four nodes, one of which has edges from two
\* other popped nodes and was put on the deque once
RequestTerminatesWitness ==
    /\ Routed
    /\ Len(dequeued) = 4
    /\ \E n, u, v \in Nodes :
           /\ u # v /\ u # n /\ v # n
           /\ Reached(u) /\ Reached(v)
           /\ HasEdge(u, n) /\ HasEdge(v, n)

====
